---------------------------- MODULE Spec2Model ----------------------------
(***************************************************************************)
(* A model of the Gaffer MCP API client (GafferApiClient): the retrying    *)
(* request() core, the project-id resolver layered on top of it, and the   *)
(* tools (execute functions and the adapter's handler) that call it.       *)
(*                                                                         *)
(* Every asynchronous call of the client runs as a task.  A task's         *)
(* position (pc) is one of the await points of request(); the steps        *)
(* between two await points are atomic, as they are on the single-threaded *)
(* event loop.  The upstream service is the environment: status, headers   *)
(* and body of every response are chosen nondeterministically.             *)
(***************************************************************************)
EXTENDS Integers, Sequences, FiniteSets, TLC

VARIABLES
    apiKey,             \* this.apiKey, a sequence of characters
    baseUrl,            \* this.baseUrl
    tokenType,          \* this.tokenType: "user" | "project"
    resolvedProjectId,  \* this.resolvedProjectId
    op,                 \* op[t]: the call task t is running, with its arguments
    ret,                \* ret[t]: how the call of task t settled
    pc,                 \* pc[t]: the await point of request() task t is at
    attempt,            \* the loop variable of request()
    lastError,          \* the local lastError of request()
    response,           \* the response of the current attempt (status, headers)
    errorData,          \* the local errorData of request()
    timer,              \* timeoutId is pending (set and neither fired nor cleared)
    result,             \* what the promise returned by request() settled with
    elapsed,            \* history: REQUEST_TIMEOUT_MS have passed since the attempt began
    waits,              \* history: the delays request() slept, in order
    tries,              \* history: the fetch() calls of the current request()
    plain,              \* history: every attempt so far got a retryable status, no Retry-After
    lastOutcome,        \* history: how the latest attempt ended
    calls,              \* history: request() invocations per credential-bound endpoint
    sent,               \* history: the endpoints fetch() has been called on
    started,            \* history: calls started so far on this client
    caller,             \* history: the task that began the latest call
    startedEmpty,       \* history: resolveProjectId() calls of a project token that
                        \*          passed no id and began while the cache was empty
    implicit,           \* history: resolveProjectId() calls that passed no id
    overlapped,         \* history: some call began while another was running
    failed,             \* history: calls of request('/project') that gave no id
    tool,               \* tool[t]: the tool task t is executing, its input and stage
    params,             \* params[t]: the query parameters passed to request()
    reply               \* reply[t]: what the adapter's tool handler resolved with

clientVars == <<apiKey, baseUrl, tokenType, resolvedProjectId>>
frameVars == <<pc, attempt, lastError, response, errorData, timer, result>>
callVars == <<started, caller, startedEmpty, implicit, overlapped, failed>>
historyVars == <<elapsed, waits, tries, plain, lastOutcome, calls, sent, callVars>>
toolVars == <<tool, params, reply>>
vars == <<clientVars, op, ret, frameVars, historyVars, toolVars>>

-----------------------------------------------------------------------------
(* Program constants *)

REQUEST_TIMEOUT_MS == 30000
MAX_RETRIES == 3
INITIAL_RETRY_DELAY_MS == 1000
RETRYABLE_STATUS_CODES == {401, 429, 500, 502, 503, 504}

(* Bounds of the model *)

\* Tasks that may run concurrently in the resolver specification.
NumTasks == 2
\* Calls started on one client in the resolver specification.
MaxCalls == 3
\* The length of the credentials enumerated in the credential specification.
MaxKeyLen == 4
\* The largest Retry-After value (seconds) the upstream sends.
MaxRetryAfter == 10
\* Tool calls made one after another on one client in the tool specification.
MaxToolCalls == 2

-----------------------------------------------------------------------------
(* JavaScript values *)

Null == "null"
Undefined == "undefined"

\* A value in a boolean position: null, undefined and "" are falsy.
Truthy(v) == v \notin {Null, Undefined, ""}

\* A JavaScript number: an integer or NaN.
Num(v) == [nan |-> FALSE, v |-> v]
NaN == [nan |-> TRUE, v |-> 0]

\* Math.max(a, b): NaN if either argument is NaN.
MathMax(a, b) ==
    IF a.nan \/ b.nan THEN NaN
    ELSE IF a.v >= b.v THEN a ELSE b

\* a * k for a JavaScript number a.
Times(a, k) == IF a.nan THEN NaN ELSE Num(a.v * k)

\* The delay setTimeout(cb, ms) really waits: NaN, values below 1 and values
\* above 2^31 - 1 are replaced by 1.
TimerDelay(ms) ==
    IF ms.nan \/ ms.v < 1 \/ ms.v > 2147483647 THEN 1 ELSE ms.v

\* An Error object.  at is the attempt during which it was constructed: it
\* tells apart two Error objects that carry the same message.
Err(name, message, at) == [name |-> name, message |-> message, at |-> at]
NoError == Err("none", "", 0)

TimeoutMessage == "Request timed out after " \o ToString(REQUEST_TIMEOUT_MS) \o "ms"
StatusMessage(status) == "API request failed: " \o ToString(status)

-----------------------------------------------------------------------------
(* The upstream service *)

Endpoints == {"/project", "/user/projects"}

\* The project a project token is bound to.
UpstreamProjectId == "p1"

StatusCodes == RETRYABLE_STATUS_CODES \cup {200, 404}

\* response.ok
Ok(status) == status >= 200 /\ status <= 299

\* The Retry-After header as headers.get() returns it: null when absent,
\* else a string holding a number of seconds, an HTTP date or nothing.
Header(kind, n) == [kind |-> kind, n |-> n]
NoHeader == Header("absent", 0)
RetryAfterHeaders ==
    {NoHeader, Header("empty", 0), Header("date", 0)}
        \cup {Header("seconds", n) : n \in {-1, 0, 3, MaxRetryAfter}}

\* if (retryAfter): a non-empty string.
HeaderTruthy(h) == h.kind \notin {"absent", "empty"}

\* Number.parseInt(retryAfter, 10)
ParseInt(h) == IF h.kind = "seconds" THEN Num(h.n) ELSE NaN

\* The body of a non-2xx response as response.json() decodes it: not JSON
\* (json() rejects), the JSON value null, or an object whose error.message
\* is missing, empty or a text.
Body(kind, message) == [kind |-> kind, message |-> message]
EmptyObject == Body("object", Undefined)
ErrorBodies ==
    {Body("invalid", Undefined), Body("null", Undefined)}
        \cup {Body("object", m) : m \in {Undefined, "", "not found"}}

\* The body of a 2xx response: not JSON, or a decoded value.  For /project
\* the value is null, an object without project, or {project: {id}}.
Json(kind, project, id) == [kind |-> kind, project |-> project, id |-> id]
OkBodies ==
    {Json("invalid", FALSE, Undefined), Json("null", FALSE, Undefined),
     Json("object", FALSE, Undefined)}
        \cup {Json("object", TRUE, i) : i \in {Undefined, "", UpstreamProjectId}}

NoResponse == [status |-> 0, retryAfter |-> NoHeader]


NoJson == Json("none", FALSE, Undefined)
Pending == [state |-> "pending", value |-> NoJson, error |-> NoError]
Resolved(value) == [state |-> "resolved", value |-> value, error |-> NoError]
Rejected(error) == [state |-> "rejected", value |-> NoJson, error |-> error]

-----------------------------------------------------------------------------
(* request(): the pure parts *)

\* new URL(`/api/v1${endpoint}`, this.baseUrl) throws a TypeError when the
\* base URL cannot be parsed.
BaseUrls == {"https://app.gaffer.sh", "not a url"}
ValidUrl(url) == url = "https://app.gaffer.sh"

\* INITIAL_RETRY_DELAY_MS * (2 ** attempt)
RetryDelay(n) == Num(INITIAL_RETRY_DELAY_MS * 2^n)

\* RETRYABLE_STATUS_CODES.includes(response.status) && attempt < MAX_RETRIES
ShouldRetryStatusOnceMore(status, n) ==
    status \in RETRYABLE_STATUS_CODES /\ n <= MAX_RETRIES
ShouldRetryStatus(status, n) ==
    status \in RETRYABLE_STATUS_CODES /\ n < MAX_RETRIES

\* let delayMs = ...; if (response.status === 429) { ... Math.max(...) }
DelayMs(status, retryAfter, n) ==
    IF status = 429 /\ HeaderTruthy(retryAfter)
    THEN MathMax(RetryDelay(n), Times(ParseInt(retryAfter), 1000))
    ELSE RetryDelay(n)

\* await response.json().catch(() => ({}))
DecodeErrorBody(body) == IF body.kind = "invalid" THEN EmptyObject ELSE body

\* errorData.error?.message || `API request failed: ${response.status}`
\* (evaluated only when errorData is not null: reading .error of null throws)
ErrorMessage(data, status) ==
    IF Truthy(data.message) THEN data.message ELSE StatusMessage(status)
NullReadMessage == "Cannot read properties of null (reading 'error')"

\* What one pass through the loop body decides: sleep and go round again, or
\* throw out of request().  last is the new lastError, clear tells whether
\* clearTimeout() ran before the sleep began.
Step(next, last, error, delay, clear) ==
    [next |-> next, last |-> last, error |-> error, delay |-> delay, clear |-> clear]

\* The catch block.
CatchStepNoRetry(error, n, last) ==
    Step("throw", last, error, Num(0), TRUE)
CatchStep(error, n, last) ==
    IF error.name = "AbortError"
    THEN LET e == Err("Error", TimeoutMessage, n)
         IN  IF n < MAX_RETRIES
             THEN Step("sleep", e, e, RetryDelay(n), TRUE)
             ELSE Step("throw", e, e, Num(0), TRUE)
    ELSE IF error.name = "TypeError" /\ n < MAX_RETRIES
    THEN Step("sleep", error, error, RetryDelay(n), TRUE)
    ELSE Step("throw", last, error, Num(0), TRUE)

\* The if (!response.ok) block, once errorData is known.
StatusStep(status, retryAfter, data, n, last) ==
    IF data.kind = "null"
    THEN CatchStep(Err("TypeError", NullReadMessage, n), n, last)
    ELSE LET e == Err("Error", ErrorMessage(data, status), n)
         IN  IF ShouldRetryStatus(status, n)
             THEN Step("sleep", e, e, DelayMs(status, retryAfter, n), FALSE)
             ELSE CatchStep(e, n, last)

-----------------------------------------------------------------------------
(* request(): the steps *)

Tasks == DOMAIN pc

\* Positions of a task inside request().
InFlight == {"fetch", "errBody", "okBody"}
Settled == {"resolved", "rejected"}

\* A loop whose attempt counter is a field of the client, shared by every
\* call in progress, instead of a local of the call.
BeginAttemptSharedCounter(t, n) ==
    /\ attempt' = [u \in DOMAIN attempt |-> IF u = t \/ pc[u] # "idle" THEN n ELSE attempt[u]]
    /\ pc' = [pc EXCEPT ![t] = "fetch"]
    /\ timer' = [timer EXCEPT ![t] = TRUE]
    /\ elapsed' = [elapsed EXCEPT ![t] = FALSE]
    /\ tries' = [tries EXCEPT ![t] = @ + 1]
    /\ sent' = sent \cup {op[t].endpoint}

\* The top of the loop body: a new AbortController and timer, then fetch().
BeginAttempt(t, n) ==
    /\ attempt' = [attempt EXCEPT ![t] = n]
    /\ pc' = [pc EXCEPT ![t] = "fetch"]
    /\ timer' = [timer EXCEPT ![t] = TRUE]
    /\ elapsed' = [elapsed EXCEPT ![t] = FALSE]
    /\ tries' = [tries EXCEPT ![t] = @ + 1]
    /\ sent' = sent \cup {op[t].endpoint}

\* The promise of request() rejects with error; the finally block has run.
Throw(t, error) ==
    /\ pc' = [pc EXCEPT ![t] = "rejected"]
    /\ result' = [result EXCEPT ![t] = Rejected(error)]
    /\ timer' = [timer EXCEPT ![t] = FALSE]

\* Carry out what the loop body decided.  pending tells whether the attempt's
\* timer is still pending when the decision is taken.
Apply(t, step, outcome, pending) ==
    /\ lastError' = [lastError EXCEPT ![t] = step.last]
    /\ lastOutcome' = [lastOutcome EXCEPT ![t] = outcome]
    /\ IF step.next = "sleep"
       THEN /\ pc' = [pc EXCEPT ![t] = "sleep"]
            /\ waits' = [waits EXCEPT ![t] = Append(@, TimerDelay(step.delay))]
            /\ timer' = [timer EXCEPT ![t] = pending /\ ~step.clear]
            /\ UNCHANGED result
       ELSE /\ Throw(t, step.error)
            /\ UNCHANGED waits

\* request(endpoint) is entered by task t whose op names the endpoint: the
\* URL is built, then the first attempt begins.  op' is given by the caller.
EnterRequest(t, endpoint) ==
    /\ calls' = IF endpoint \in DOMAIN calls
                THEN [calls EXCEPT ![endpoint] = @ + 1] ELSE calls
    /\ lastError' = [lastError EXCEPT ![t] = NoError]
    /\ response' = [response EXCEPT ![t] = NoResponse]
    /\ errorData' = [errorData EXCEPT ![t] = EmptyObject]
    /\ waits' = [waits EXCEPT ![t] = <<>>]
    /\ plain' = [plain EXCEPT ![t] = TRUE]
    /\ lastOutcome' = [lastOutcome EXCEPT ![t] = "none"]
    /\ IF ValidUrl(baseUrl)
       THEN /\ attempt' = [attempt EXCEPT ![t] = 0]
            /\ pc' = [pc EXCEPT ![t] = "fetch"]
            /\ timer' = [timer EXCEPT ![t] = TRUE]
            /\ elapsed' = [elapsed EXCEPT ![t] = FALSE]
            /\ tries' = [tries EXCEPT ![t] = 1]
            /\ sent' = sent \cup {endpoint}
            /\ result' = [result EXCEPT ![t] = Pending]
       ELSE /\ pc' = [pc EXCEPT ![t] = "rejected"]
            /\ result' = [result EXCEPT ![t] = Rejected(Err("TypeError", "Invalid URL", 0))]
            /\ attempt' = [attempt EXCEPT ![t] = 0]
            /\ timer' = [timer EXCEPT ![t] = FALSE]
            /\ elapsed' = [elapsed EXCEPT ![t] = FALSE]
            /\ tries' = [tries EXCEPT ![t] = 0]
            /\ UNCHANGED sent

\* A caller invokes request(endpoint) directly.
Request(t, endpoint) ==
    /\ op[t].name = "idle"
    /\ op' = [op EXCEPT ![t] = [name |-> "request", endpoint |-> endpoint, projectId |-> Undefined]]
    /\ started' = started + 1
    /\ caller' = t
    /\ EnterRequest(t, endpoint)
    /\ UNCHANGED toolVars
    /\ UNCHANGED <<clientVars, ret, startedEmpty, implicit, overlapped, failed>>

\* fetch() resolves: the status line and headers have arrived.  A 2xx
\* response is returned at once as response.json(), not awaited, so the
\* finally block clears the timer while the body is still to come.
FetchResolves(t, statuses, headers) ==
    /\ pc[t] = "fetch"
    /\ \E status \in statuses, retryAfter \in headers :
        /\ response' = [response EXCEPT ![t] = [status |-> status, retryAfter |-> retryAfter]]
        /\ plain' = [plain EXCEPT ![t] =
                        @ /\ status \in RETRYABLE_STATUS_CODES /\ retryAfter = NoHeader]
        /\ pc' = [pc EXCEPT ![t] = IF Ok(status) THEN "okBody" ELSE "errBody"]
        /\ timer' = [timer EXCEPT ![t] = IF Ok(status) THEN FALSE ELSE @]
    /\ UNCHANGED toolVars
    /\ UNCHANGED <<clientVars, op, ret, attempt, lastError, errorData, result,
                   elapsed, waits, tries, lastOutcome, calls, sent, callVars>>

\* fetch() rejects with a TypeError: the connection could not be made.
FetchRejects(t) ==
    /\ pc[t] = "fetch"
    /\ Apply(t, CatchStep(Err("TypeError", "fetch failed", attempt[t]), attempt[t], lastError[t]),
             "network", TRUE)
    /\ plain' = [plain EXCEPT ![t] = FALSE]
    /\ UNCHANGED toolVars
    /\ UNCHANGED <<clientVars, op, ret, attempt, response, errorData,
                   elapsed, tries, calls, sent, callVars>>

\* The body of a non-2xx response has been read.
ErrorBodyArrives(t, bodies) ==
    /\ pc[t] = "errBody"
    /\ \E body \in bodies :
        LET data == DecodeErrorBody(body)
        IN  /\ errorData' = [errorData EXCEPT ![t] = data]
            /\ Apply(t, StatusStep(response[t].status, response[t].retryAfter, data,
                                   attempt[t], lastError[t]), "status", TRUE)
    /\ UNCHANGED toolVars
    /\ UNCHANGED <<clientVars, op, ret, attempt, response,
                   elapsed, tries, plain, calls, sent, callVars>>

\* A request() that handles a 2xx body that is not JSON as it handles a
\* connection error.
OkBodyArrivesRetried(t, bodies) ==
    /\ pc[t] = "okBody"
    /\ \E body \in bodies :
        IF body.kind = "invalid"
        THEN Apply(t, CatchStep(Err("TypeError", "Unexpected token", attempt[t]),
                                attempt[t], lastError[t]), "body", FALSE)
        ELSE /\ pc' = [pc EXCEPT ![t] = "resolved"]
             /\ result' = [result EXCEPT ![t] = Resolved(body)]
             /\ lastOutcome' = [lastOutcome EXCEPT ![t] = "body"]
             /\ UNCHANGED <<lastError, waits, timer>>
    /\ UNCHANGED toolVars
    /\ UNCHANGED <<clientVars, op, ret, attempt, response, errorData,
                   elapsed, tries, plain, calls, sent, callVars>>

\* The body of a 2xx response has been read: the promise request() returned
\* settles with the decoded value, or rejects when the body is not JSON.
OkBodyArrives(t, bodies) ==
    /\ pc[t] = "okBody"
    /\ \E body \in bodies :
        /\ pc' = [pc EXCEPT ![t] = IF body.kind = "invalid" THEN "rejected" ELSE "resolved"]
        /\ result' = [result EXCEPT ![t] =
                        IF body.kind = "invalid"
                        THEN Rejected(Err("SyntaxError", "Unexpected token", attempt[t]))
                        ELSE Resolved(body)]
    /\ lastOutcome' = [lastOutcome EXCEPT ![t] = "body"]
    /\ UNCHANGED toolVars
    /\ UNCHANGED <<clientVars, op, ret, attempt, lastError, response, errorData, timer,
                   elapsed, waits, tries, plain, calls, sent, callVars>>

\* REQUEST_TIMEOUT_MS after the attempt began.  A pending timer fires and
\* aborts the controller: a pending fetch() rejects with an AbortError; a
\* pending read of an error body rejects too and its .catch() makes it {};
\* during a backoff sleep the abort finds nothing to abort.  Once the timer
\* is cleared nothing happens.
DeadlinePasses(t) ==
    /\ pc[t] \in InFlight \cup {"sleep"}
    /\ ~elapsed[t]
    /\ pc[t] = "sleep" => timer[t]
    /\ elapsed' = [elapsed EXCEPT ![t] = TRUE]
    /\ IF ~timer[t]
       THEN UNCHANGED <<pc, lastError, errorData, timer, result, waits, plain, lastOutcome>>
       ELSE IF pc[t] = "fetch"
       THEN /\ Apply(t, CatchStep(Err("AbortError", "This operation was aborted", attempt[t]),
                                  attempt[t], lastError[t]), "timeout", FALSE)
            /\ plain' = [plain EXCEPT ![t] = FALSE]
            /\ UNCHANGED errorData
       ELSE IF pc[t] = "errBody"
       THEN /\ errorData' = [errorData EXCEPT ![t] = EmptyObject]
            /\ Apply(t, StatusStep(response[t].status, response[t].retryAfter, EmptyObject,
                                   attempt[t], lastError[t]), "status", FALSE)
            /\ UNCHANGED plain
       ELSE /\ timer' = [timer EXCEPT ![t] = FALSE]
            /\ UNCHANGED <<pc, lastError, errorData, result, waits, plain, lastOutcome>>
    /\ UNCHANGED toolVars
    /\ UNCHANGED <<clientVars, op, ret, attempt, response, tries, calls, sent, callVars>>

\* The backoff sleep ends: continue runs the finally block and the loop's
\* attempt++; past MAX_RETRIES the loop ends and lastError is thrown.
Wake(t) ==
    /\ pc[t] = "sleep"
    /\ IF attempt[t] + 1 <= MAX_RETRIES
       THEN /\ BeginAttempt(t, attempt[t] + 1)
            /\ UNCHANGED result
       ELSE /\ Throw(t, lastError[t])
            /\ attempt' = [attempt EXCEPT ![t] = @ + 1]
            /\ UNCHANGED <<elapsed, tries, sent>>
    /\ UNCHANGED toolVars
    /\ UNCHANGED <<clientVars, op, ret, lastError, response, errorData,
                   waits, plain, lastOutcome, calls, callVars>>

-----------------------------------------------------------------------------
(* The client: construction and resolveProjectId() *)

\* Credentials, as sequences of characters.
ApiKeys == {<<"g", "a", "f", "_", "k">>, <<"g", "f", "r", "_", "k">>}

\* Every string of up to n of the characters chars.
RECURSIVE Strings(_, _)
Strings(chars, n) ==
    IF n = 0 THEN {<<>>}
    ELSE LET shorter == Strings(chars, n - 1)
         IN  shorter \cup {Append(s, c) : s \in shorter, c \in chars}

\* The credentials a client may be constructed with: every string over the
\* characters of the prefix up to MaxKeyLen, and some longer ones - keys of
\* either kind, the prefix in another case, after a space, or not in front.
Tokens ==
    Strings({"g", "a", "f", "_"}, MaxKeyLen)
        \cup ApiKeys
        \cup {<<"g", "f", "r", "_", "x", "y", "z">>, <<"G", "A", "F", "_", "k">>,
              <<"G", "a", "f", "_", "k">>, <<" ", "g", "a", "f", "_", "k">>,
              <<"x", "g", "a", "f", "_">>, <<"g", "a", "f", "_", "g", "a", "f", "_">>}

\* startsWith() that does not tell upper case from lower case.
StartsWithAnyCase(token, prefix) ==
    LET lower(c) == CASE c = "G" -> "g" [] c = "A" -> "a" [] c = "F" -> "f" [] OTHER -> c
    IN  /\ Len(token) >= Len(prefix)
        /\ \A i \in 1..Len(prefix) : lower(token[i]) = lower(prefix[i])

\* token.startsWith(prefix)
StartsWith(token, prefix) ==
    /\ Len(token) >= Len(prefix)
    /\ SubSeq(token, 1, Len(prefix)) = prefix

detectTokenType(token) ==
    IF StartsWith(token, <<"g", "a", "f", "_">>) THEN "user" ELSE "project"

isUserToken == tokenType = "user"

\* The project ids a caller passes explicitly; "" and undefined are no id.
ExplicitIds == {Undefined, "", "p1", "p2"}

NoRet == [state |-> "none", value |-> Undefined, error |-> NoError]
Awaiting == [state |-> "pending", value |-> Undefined, error |-> NoError]
Returned(value) == [state |-> "returned", value |-> value, error |-> NoError]
Threw(error) == [state |-> "threw", value |-> Undefined, error |-> error]

\* Task t is inside a call.
Busy(t) == pc[t] \in InFlight \cup {"sleep"} \/ ret[t].state = "pending"

\* Task t holds no frame of request(): the call never entered it, or it has
\* returned to its caller.
NoFrame(t) ==
    /\ pc' = [pc EXCEPT ![t] = "idle"]
    /\ attempt' = [attempt EXCEPT ![t] = 0]
    /\ lastError' = [lastError EXCEPT ![t] = NoError]
    /\ response' = [response EXCEPT ![t] = NoResponse]
    /\ errorData' = [errorData EXCEPT ![t] = EmptyObject]
    /\ timer' = [timer EXCEPT ![t] = FALSE]
    /\ result' = [result EXCEPT ![t] = Pending]
    /\ elapsed' = [elapsed EXCEPT ![t] = FALSE]
    /\ waits' = [waits EXCEPT ![t] = <<>>]
    /\ tries' = [tries EXCEPT ![t] = 0]
    /\ plain' = [plain EXCEPT ![t] = TRUE]
    /\ lastOutcome' = [lastOutcome EXCEPT ![t] = "none"]

\* if (projectId) return projectId
HasExplicitIdNever(projectId) == FALSE
HasExplicitId(projectId) == Truthy(projectId)

\* if (this.resolvedProjectId) return this.resolvedProjectId
CacheHitNever(cached) == FALSE
CacheHit(cached) == Truthy(cached)

\* resolveProjectId() without the check of the token type.
ResolveEntryAnyToken(projectId) ==
    IF HasExplicitId(projectId) THEN [do |-> "return", value |-> projectId]
    ELSE IF CacheHit(resolvedProjectId) THEN [do |-> "return", value |-> resolvedProjectId]
    ELSE [do |-> "request", value |-> Undefined]

\* What resolveProjectId(projectId) does before its first await: "return",
\* "throw" or "request" (the call of this.request('/project')).
ResolveEntry(projectId) ==
    IF HasExplicitId(projectId) THEN [do |-> "return", value |-> projectId]
    ELSE IF isUserToken THEN [do |-> "throw", value |-> Undefined]
    ELSE IF CacheHit(resolvedProjectId) THEN [do |-> "return", value |-> resolvedProjectId]
    ELSE [do |-> "request", value |-> Undefined]

ProjectIdRequired == "projectId is required when using a user API Key"

\* resolveProjectId(projectId) is called by task t and runs to its first
\* await or to its end.
ResolveProjectId(t, projectId) ==
    /\ ~Busy(t)
    /\ started < MaxCalls
    /\ started' = started + 1
    /\ caller' = t
    /\ startedEmpty' =
           IF tokenType = "project" /\ ~Truthy(projectId) /\ ~Truthy(resolvedProjectId)
           THEN startedEmpty + 1 ELSE startedEmpty
    /\ implicit' = IF Truthy(projectId) THEN implicit ELSE implicit + 1
    /\ overlapped' = (overlapped \/ \E u \in Tasks \ {t} : Busy(u))
    /\ op' = [op EXCEPT ![t] = [name |-> "resolveProjectId", endpoint |-> "/project",
                                projectId |-> projectId]]
    /\ LET entry == ResolveEntry(projectId)
       IN  IF entry.do = "request"
           THEN /\ EnterRequest(t, "/project")
                /\ ret' = [ret EXCEPT ![t] = Awaiting]
           ELSE /\ NoFrame(t)
                /\ ret' = [ret EXCEPT ![t] =
                              IF entry.do = "return" THEN Returned(entry.value)
                              ELSE Threw(Err("Error", ProjectIdRequired, 0))]
                /\ UNCHANGED <<calls, sent>>
    /\ UNCHANGED toolVars
    /\ UNCHANGED <<clientVars, failed>>

\* response.project.id: reading .project of null or .id of undefined throws.
ProjectIdOf(value) ==
    IF value.kind = "null"
    THEN [throws |-> TRUE, id |-> Undefined,
          message |-> "Cannot read properties of null (reading 'project')"]
    ELSE IF ~value.project
    THEN [throws |-> TRUE, id |-> Undefined,
          message |-> "Cannot read properties of undefined (reading 'id')"]
    ELSE [throws |-> FALSE, id |-> value.id, message |-> ""]

\* this.resolvedProjectId = response.project.id
CacheWriteSkipped(cached, id) == cached
CacheWrite(cached, id) == id

\* The await of this.request('/project') in resolveProjectId() returns or
\* throws: the cache is written and the id returned, or the error goes on
\* to the caller.
ResolveProjectIdResumes(t) ==
    /\ op[t].name = "resolveProjectId"
    /\ ret[t].state = "pending"
    /\ pc[t] \in Settled
    /\ IF result[t].state = "rejected"
       THEN /\ ret' = [ret EXCEPT ![t] = Threw(result[t].error)]
            /\ UNCHANGED resolvedProjectId
       ELSE LET got == ProjectIdOf(result[t].value)
            IN  IF got.throws
                THEN /\ ret' = [ret EXCEPT ![t] = Threw(Err("TypeError", got.message, 0))]
                     /\ UNCHANGED resolvedProjectId
                ELSE /\ resolvedProjectId' = CacheWrite(resolvedProjectId, got.id)
                     /\ ret' = [ret EXCEPT ![t] = Returned(resolvedProjectId')]
    /\ failed' =
           IF /\ result[t].state = "resolved"
              /\ ~ProjectIdOf(result[t].value).throws
              /\ Truthy(ProjectIdOf(result[t].value).id)
           THEN failed ELSE failed + 1
    /\ NoFrame(t)
    /\ UNCHANGED toolVars
    /\ UNCHANGED <<apiKey, baseUrl, tokenType, op, calls, sent, started, caller,
                   startedEmpty, implicit, overlapped>>

-----------------------------------------------------------------------------
(* The tools: inputs *)

\* An optional string argument: undefined, or a string as its characters.
Absent == [defined |-> FALSE, chars |-> <<>>]
Text(chars) == [defined |-> TRUE, chars |-> chars]

\* An optional string in a boolean position: undefined and "" are falsy.
Given(v) == v.defined /\ v.chars # <<>>

RECURSIVE TrimStart(_)
TrimStart(chars) ==
    IF chars # <<>> /\ Head(chars) = " " THEN TrimStart(Tail(chars)) ELSE chars

RECURSIVE TrimEnd(_)
TrimEnd(chars) ==
    IF chars # <<>> /\ chars[Len(chars)] = " "
    THEN TrimEnd(SubSeq(chars, 1, Len(chars) - 1)) ELSE chars

\* An optional number argument: undefined, or a number.
NoNumber == [defined |-> FALSE, n |-> 0]
Number(n) == [defined |-> TRUE, n |-> n]

\* v?.trim()
Trim(v) == IF v.defined THEN Text(TrimEnd(TrimStart(v.chars))) ELSE Absent

\* The tools the server registers, by metadata.name.
Tools ==
    {"get_project_health", "get_test_history", "get_flaky_tests", "list_test_runs",
     "list_projects", "get_report", "get_slowest_tests", "get_test_run_details",
     "get_failure_clusters", "compare_test_metrics", "get_coverage_summary",
     "get_coverage_for_file", "find_uncovered_failure_areas", "get_untested_files",
     "get_report_browser_url", "get_upload_status"}

\* main() registers list_projects only for a user API Key.
Registered == IF isUserToken THEN Tools ELSE Tools \ {"list_projects"}

\* A tool input with no field set.
NoInput ==
    [projectId |-> Undefined, testRunId |-> Undefined, sessionId |-> Undefined,
     commitSha |-> Undefined, branch |-> Undefined,
     testName |-> Absent, filePath |-> Absent,
     beforeCommit |-> Absent, afterCommit |-> Absent,
     beforeRunId |-> Absent, afterRunId |-> Absent,
     limit |-> NoNumber]

\* The values callers pass for the fields of an input.
ProjectIds == {Undefined, "p2"}
RunIds == {Undefined, "", "r1"}
SessionIds == {Undefined, "", "s1"}
Filters == {Undefined, "c1"}
Names == {Absent, Text(<<>>), Text(<<" ", " ">>), Text(<<" ", "a", " ">>), Text(<<"a">>)}
FilePaths == {Absent, Text(<<" ">>), Text(<<"f">>)}
Commits == {Absent, Text(<<" ">>), Text(<<"a">>)}
TestRuns == {Absent, Text(<<"r">>)}
TestNames == {Absent, Text(<<"a">>)}
Limits == {NoNumber, Number(5)}

\* The inputs a tool is called with: the fields its execute function reads.
Inputs(name) ==
    CASE name = "list_projects" -> {NoInput}
      [] name = "get_report" ->
            {[NoInput EXCEPT !.testRunId = r] : r \in RunIds}
      [] name \in {"get_test_run_details", "get_failure_clusters", "get_report_browser_url"} ->
            {[NoInput EXCEPT !.projectId = p, !.testRunId = r] :
                p \in ProjectIds, r \in RunIds}
      [] name = "get_test_history" ->
            {[NoInput EXCEPT !.projectId = p, !.testName = n, !.filePath = f,
                             !.limit = l] :
                p \in ProjectIds, n \in Names, f \in FilePaths, l \in Limits}
      [] name = "compare_test_metrics" ->
            {[NoInput EXCEPT !.projectId = p, !.testName = n,
                             !.beforeCommit = bc, !.afterCommit = ac,
                             !.beforeRunId = br, !.afterRunId = ar] :
                p \in ProjectIds, n \in TestNames,
                bc \in Commits, ac \in Commits, br \in TestRuns, ar \in TestRuns}
      [] name = "list_test_runs" ->
            {[NoInput EXCEPT !.projectId = p, !.commitSha = c, !.branch = b,
                             !.limit = l] :
                p \in ProjectIds, c \in Filters, b \in Filters, l \in Limits}
      [] name = "get_flaky_tests" ->
            {[NoInput EXCEPT !.projectId = p, !.limit = l] :
                p \in ProjectIds, l \in Limits}
      [] name = "get_upload_status" ->
            {[NoInput EXCEPT !.projectId = p, !.sessionId = s,
                             !.commitSha = c, !.branch = b] :
                p \in ProjectIds, s \in SessionIds, c \in Filters, b \in Filters}
      [] OTHER ->
            {[NoInput EXCEPT !.projectId = p] : p \in ProjectIds}

-----------------------------------------------------------------------------
(* The tools: execute functions and the client methods they call *)

\* The validation an execute function does itself, before it calls the
\* client: the message of the error it throws, or "" when it throws none.
ToolCheck(name, input) ==
    LET hasCommits == Given(input.beforeCommit) /\ Given(input.afterCommit)
        hasRunIds == Given(input.beforeRunId) /\ Given(input.afterRunId)
    IN  CASE name = "compare_test_metrics" ->
                IF ~hasCommits /\ ~hasRunIds
                THEN "Must provide either (beforeCommit + afterCommit) or (beforeRunId + afterRunId)"
                ELSE IF /\ hasCommits
                        /\ \/ Len(Trim(input.beforeCommit).chars) = 0
                           \/ Len(Trim(input.afterCommit).chars) = 0
                THEN "beforeCommit and afterCommit must not be empty strings"
                ELSE IF /\ hasRunIds
                        /\ \/ Len(Trim(input.beforeRunId).chars) = 0
                           \/ Len(Trim(input.afterRunId).chars) = 0
                THEN "beforeRunId and afterRunId must not be empty strings"
                ELSE ""
          [] name = "get_test_history" ->
                IF ~Given(input.testName) /\ ~Given(input.filePath)
                THEN "Either testName or filePath is required"
                ELSE ""
          [] OTHER -> ""

\* executeGetUploadStatus: if (input.sessionId) the detail of that session,
\* else the list of sessions.
UploadMethodListOnly(input) == "listUploadSessions"
UploadMethod(input) ==
    IF Truthy(input.sessionId) THEN "getUploadSessionDetail" ELSE "listUploadSessions"

\* The client method an execute function calls.
MethodOf(name, input) ==
    CASE name = "get_project_health" -> "getProjectHealth"
      [] name = "get_test_history" -> "getTestHistory"
      [] name = "get_flaky_tests" -> "getFlakyTests"
      [] name = "list_test_runs" -> "getTestRuns"
      [] name = "list_projects" -> "listProjects"
      [] name = "get_report" -> "getReport"
      [] name = "get_slowest_tests" -> "getSlowestTests"
      [] name = "get_test_run_details" -> "getTestRunDetails"
      [] name = "get_failure_clusters" -> "getFailureClusters"
      [] name = "compare_test_metrics" -> "compareTestMetrics"
      [] name = "get_coverage_summary" -> "getCoverageSummary"
      [] name \in {"get_coverage_for_file", "get_untested_files"} -> "getCoverageFiles"
      [] name = "find_uncovered_failure_areas" -> "getCoverageRiskAreas"
      [] name = "get_report_browser_url" -> "getReportBrowserUrl"
      [] name = "get_upload_status" -> UploadMethod(input)

\* n || 20; 0 is falsy.
OrTwenty(v) == IF v.defined /\ v.n # 0 THEN v ELSE Number(20)

\* The options an execute function passes to the client method.  Of the
\* numeric options the model keeps the limit of get_test_history,
\* list_test_runs and get_flaky_tests.
ArgsOf(name, input) ==
    IF name = "get_upload_status"
    THEN IF Truthy(input.sessionId)
         THEN [NoInput EXCEPT !.projectId = input.projectId, !.sessionId = input.sessionId]
         ELSE [NoInput EXCEPT !.projectId = input.projectId,
                              !.commitSha = input.commitSha, !.branch = input.branch]
    ELSE IF name \in {"get_test_history", "list_test_runs"}
    THEN [input EXCEPT !.limit = OrTwenty(input.limit)]
    ELSE input

\* The methods that refuse a project token, with the error they throw.  (The
\* message of listProjects goes on with advice to call the tools directly.)
GatedMethodsButList == {"getReport"}
GatedMethods == {"listProjects", "getReport"}

GateMessage(method) ==
    IF method = "listProjects"
    THEN "list_projects is not available with project tokens (gfr_)."
    ELSE "getReport requires a user API Key (gaf_). Project tokens (gfr_) cannot access reports via API."

\* The validation a client method does before it resolves the project id:
\* the message of the error it throws, or "".
MethodCheck(method, args) ==
    CASE method \in {"getReport", "getTestRunDetails", "getReportBrowserUrl",
                     "getFailureClusters"} ->
            IF ~Truthy(args.testRunId) THEN "testRunId is required" ELSE ""
      [] method = "getUploadSessionDetail" ->
            IF ~Truthy(args.sessionId) THEN "sessionId is required" ELSE ""
      [] method = "compareTestMetrics" ->
            IF ~Given(args.testName) THEN "testName is required" ELSE ""
      [] method = "getTestHistory" ->
            IF ~Given(Trim(args.testName)) /\ ~Given(Trim(args.filePath))
            THEN "Either testName or filePath is required (and must not be empty)"
            ELSE ""
      [] OTHER -> ""

\* The methods that call resolveProjectId(options.projectId).
ProjectMethods ==
    {"getProjectHealth", "getTestHistory", "getFlakyTests", "getTestRuns",
     "getSlowestTests", "getTestRunDetails", "compareTestMetrics",
     "getCoverageSummary", "getCoverageFiles", "getCoverageRiskAreas",
     "getReportBrowserUrl", "getFailureClusters", "listUploadSessions",
     "getUploadSessionDetail"}

\* The endpoint a method requests; the template literal renders an undefined
\* id as the text "undefined".
Path(method, projectId, args) ==
    LET project == "/user/projects/" \o projectId
    IN  CASE method = "listProjects" -> "/user/projects"
          [] method = "getReport" -> "/user/test-runs/" \o args.testRunId \o "/report"
          [] method = "getProjectHealth" -> project \o "/health"
          [] method = "getTestHistory" -> project \o "/test-history"
          [] method = "getFlakyTests" -> project \o "/flaky-tests"
          [] method = "getTestRuns" -> project \o "/test-runs"
          [] method = "getSlowestTests" -> project \o "/slowest-tests"
          [] method = "getTestRunDetails" ->
                project \o "/test-runs/" \o args.testRunId \o "/details"
          [] method = "compareTestMetrics" -> project \o "/compare-test"
          [] method = "getCoverageSummary" -> project \o "/coverage-summary"
          [] method = "getCoverageFiles" -> project \o "/coverage/files"
          [] method = "getCoverageRiskAreas" -> project \o "/coverage/risk-areas"
          [] method = "getReportBrowserUrl" ->
                project \o "/reports/" \o args.testRunId \o "/browser-url"
          [] method = "getFailureClusters" ->
                project \o "/test-runs/" \o args.testRunId \o "/failure-clusters"
          [] method = "listUploadSessions" -> project \o "/upload-sessions"
          [] method = "getUploadSessionDetail" ->
                project \o "/upload-sessions/" \o args.sessionId

\* No query parameter.
NoParams ==
    [testName |-> Absent, filePath |-> Absent,
     beforeCommit |-> Absent, afterCommit |-> Absent,
     beforeRunId |-> Absent, afterRunId |-> Absent,
     commitSha |-> Undefined, branch |-> Undefined,
     limit |-> NoNumber]

\* ...(v && { v }): the parameter is passed only when it is truthy.
Spread(v) == IF Given(v) THEN v ELSE Absent
SpreadId(v) == IF Truthy(v) THEN v ELSE Undefined
SpreadNumber(v) == IF v.defined /\ v.n # 0 THEN v ELSE NoNumber

\* compareTestMetrics choosing the commit pair over the run-id pair.
QueryOnePair(method, args) ==
    IF method = "compareTestMetrics"
    THEN [NoParams EXCEPT !.testName = args.testName,
                          !.beforeCommit = Spread(args.beforeCommit),
                          !.afterCommit = Spread(args.afterCommit)]
    ELSE NoParams

\* The query parameters a method passes to request().
Query(method, args) ==
    CASE method = "getTestHistory" ->
            [NoParams EXCEPT !.testName = Spread(Trim(args.testName)),
                             !.filePath = Spread(Trim(args.filePath)),
                             !.limit = SpreadNumber(args.limit)]
      [] method = "compareTestMetrics" ->
            [NoParams EXCEPT !.testName = args.testName,
                             !.beforeCommit = Spread(args.beforeCommit),
                             !.afterCommit = Spread(args.afterCommit),
                             !.beforeRunId = Spread(args.beforeRunId),
                             !.afterRunId = Spread(args.afterRunId)]
      [] method = "getTestRuns" ->
            [NoParams EXCEPT !.commitSha = SpreadId(args.commitSha),
                             !.branch = SpreadId(args.branch),
                             !.limit = SpreadNumber(args.limit)]
      [] method = "getFlakyTests" ->
            [NoParams EXCEPT !.limit = SpreadNumber(args.limit)]
      [] method = "listUploadSessions" ->
            [NoParams EXCEPT !.commitSha = SpreadId(args.commitSha),
                             !.branch = SpreadId(args.branch)]
      [] method = "getCoverageFiles" ->
            [NoParams EXCEPT !.filePath = Spread(args.filePath)]
      [] OTHER -> NoParams

-----------------------------------------------------------------------------
(* The tools: responses and the adapter *)

\* The 2xx body of an operation's endpoint: not JSON, null, or an object.
\* Of the object the model keeps two optional, nullable fields: commitSha
\* (copied by the execute functions as `commitSha: run.commitSha`, and
\* standing for every field copied that way) and message (test.message of a
\* history entry).  Both are absent, both null or both a text.
OpJson(kind, commitSha, message) ==
    [kind |-> kind, commitSha |-> commitSha, message |-> message]

Nullables == {Undefined, Null, "abc"}

OpBodies ==
    {OpJson("invalid", Undefined, Undefined), OpJson("null", Undefined, Undefined)}
        \cup {OpJson("object", v, v) : v \in Nullables}

\* The bodies the upstream may answer a request of endpoint with.
BodiesOf(endpoint) == IF endpoint = "/project" THEN OkBodies ELSE OpBodies

\* v || undefined
OrUndefined(v) == IF Truthy(v) THEN v ELSE Undefined

\* The execute functions that return the client's response as it is.
Returning == {"get_failure_clusters", "compare_test_metrics", "get_upload_status"}

\* The first property an execute function reads of the response.
FirstRead(name) ==
    CASE name = "get_project_health" -> "analytics"
      [] name = "get_test_history" -> "history"
      [] name = "get_flaky_tests" -> "flakyTests"
      [] name = "list_test_runs" -> "testRuns"
      [] name = "list_projects" -> "projects"
      [] name = "get_slowest_tests" -> "slowestTests"
      [] name = "get_report_browser_url" -> "url"
      [] name \in {"get_report", "get_test_run_details"} -> "testRunId"
      [] OTHER -> "hasCoverage"

\* What an execute function makes of the response: it throws a TypeError
\* (reading a property of null) or returns its output.
Reshape(name, value) ==
    IF name \in Returning
    THEN [throws |-> FALSE, message |-> "", output |-> value]
    ELSE IF value.kind = "null"
    THEN [throws |-> TRUE,
          message |-> "Cannot read properties of null (reading '" \o FirstRead(name) \o "')",
          output |-> value]
    ELSE [throws |-> FALSE, message |-> "",
          output |->
            CASE name = "list_test_runs" ->
                    OpJson("object", OrUndefined(value.commitSha), Undefined)
              [] name = "get_test_history" ->
                    OpJson("object", value.commitSha, OrUndefined(value.message))
              [] OTHER -> OpJson("object", value.commitSha, value.message)]

\* "name":value of JSON.stringify; a property that is undefined is left out.
JsonProperty(name, v) ==
    IF v = Undefined THEN ""
    ELSE "\"" \o name \o "\":" \o (IF v = Null THEN "null" ELSE "\"" \o v \o "\"")

\* JSON.stringify(output, null, 2), without its line breaks and indentation.
Stringify(output) ==
    IF output.kind = "null" THEN "null"
    ELSE LET c == JsonProperty("commitSha", output.commitSha)
             m == JsonProperty("message", output.message)
         IN  "{" \o c \o (IF c # "" /\ m # "" THEN "," ELSE "") \o m \o "}"

\* What the handler of registerTool resolves with.  A success response has
\* no isError property.
NoOutput == OpJson("none", Undefined, Undefined)
NoReply == [state |-> "none", isError |-> Undefined, text |-> "", structuredContent |-> NoOutput]
Success(output) ==
    [state |-> "resolved", isError |-> Undefined, text |-> Stringify(output),
     structuredContent |-> output]

\* error instanceof Error
InstanceOfError(error) == error.name \in {"Error", "TypeError", "SyntaxError"}

\* A handler that hides the message of every error.
handleToolErrorUnknown(error) ==
    [state |-> "resolved", isError |-> "true", text |-> "Error: Unknown error",
     structuredContent |-> NoOutput]

handleToolError(error) ==
    [state |-> "resolved", isError |-> "true",
     text |-> "Error: " \o (IF InstanceOfError(error) THEN error.message ELSE "Unknown error"),
     structuredContent |-> NoOutput]

\* The try/catch of the handler around `await tool.execute(client, input)`.
Handle(outcome) ==
    IF outcome.state = "threw" THEN handleToolError(outcome.error)
    ELSE Success(outcome.value)

-----------------------------------------------------------------------------
(* The tools: a call of an execute function, step by step *)

\* No tool call yet.  requests counts the request() calls a tool call made.
NoTool == [name |-> "", input |-> NoInput, handled |-> FALSE, stage |-> "idle",
           requests |-> 0]

Throwing(message) ==
    [do |-> "throw", message |-> message, stage |-> "done",
     endpoint |-> "", params |-> NoParams]
Requesting(stage, endpoint, query) ==
    [do |-> "request", message |-> "", stage |-> stage,
     endpoint |-> endpoint, params |-> query]

\* A client whose methods resolve the project id before they validate.
ExecuteEntryResolveFirst(name, input) ==
    LET method == MethodOf(name, input)
        args == ArgsOf(name, input)
        checked == ToolCheck(name, input)
        valid == MethodCheck(method, args)
        entry == ResolveEntry(args.projectId)
    IN  IF method \in ProjectMethods /\ entry.do = "request"
        THEN Requesting("resolve", "/project", NoParams)
        ELSE IF checked # "" THEN Throwing(checked)
        ELSE IF method \in GatedMethods /\ ~isUserToken THEN Throwing(GateMessage(method))
        ELSE IF valid # "" THEN Throwing(valid)
        ELSE IF method \notin ProjectMethods
        THEN Requesting("dispatch", Path(method, Undefined, args), Query(method, args))
        ELSE IF entry.do = "throw" THEN Throwing(ProjectIdRequired)
        ELSE Requesting("dispatch", Path(method, entry.value, args), Query(method, args))

\* What execute(client, input) of the tool does before its first await of
\* the network: it throws, or it calls request() - for /project when the
\* project id has to be resolved first, else for the method's endpoint.
ExecuteEntry(name, input) ==
    LET method == MethodOf(name, input)
        args == ArgsOf(name, input)
        checked == ToolCheck(name, input)
        valid == MethodCheck(method, args)
        entry == ResolveEntry(args.projectId)
    IN  IF checked # "" THEN Throwing(checked)
        ELSE IF method \in GatedMethods /\ ~isUserToken THEN Throwing(GateMessage(method))
        ELSE IF valid # "" THEN Throwing(valid)
        ELSE IF method \notin ProjectMethods
        THEN Requesting("dispatch", Path(method, Undefined, args), Query(method, args))
        ELSE IF entry.do = "throw" THEN Throwing(ProjectIdRequired)
        ELSE IF entry.do = "request" THEN Requesting("resolve", "/project", NoParams)
        ELSE Requesting("dispatch", Path(method, entry.value, args), Query(method, args))

\* execute settles with outcome; the handler, if the call came through it,
\* resolves with its response.
Settle(t, called, outcome) ==
    /\ ret' = [ret EXCEPT ![t] = outcome]
    /\ tool' = [tool EXCEPT ![t] = [called EXCEPT !.stage = "done"]]
    /\ reply' = [reply EXCEPT ![t] = IF called.handled THEN Handle(outcome) ELSE NoReply]

\* Task t calls the tool name with input: through the handler registerTool
\* installed or, for a tool main() did not register, by calling its execute
\* function directly.
Execute(t, name, input) ==
    /\ ~Busy(t)
    /\ started < MaxToolCalls
    /\ started' = started + 1
    /\ caller' = t
    /\ LET entry == ExecuteEntry(name, input)
           called == [name |-> name, input |-> input, handled |-> name \in Registered,
                      stage |-> entry.stage,
                      requests |-> IF entry.do = "throw" THEN 0 ELSE 1]
       IN  /\ op' = [op EXCEPT ![t] = [name |-> MethodOf(name, input),
                                       endpoint |-> entry.endpoint,
                                       projectId |-> ArgsOf(name, input).projectId]]
           /\ params' = [params EXCEPT ![t] = entry.params]
           /\ IF entry.do = "throw"
              THEN /\ NoFrame(t)
                   /\ Settle(t, called, Threw(Err("Error", entry.message, 0)))
                   /\ UNCHANGED <<calls, sent>>
              ELSE /\ EnterRequest(t, entry.endpoint)
                   /\ ret' = [ret EXCEPT ![t] = Awaiting]
                   /\ tool' = [tool EXCEPT ![t] = called]
                   /\ reply' = [reply EXCEPT ![t] = NoReply]
    /\ UNCHANGED <<clientVars, startedEmpty, implicit, overlapped, failed>>

\* The request() a tool call awaits has settled.  After the resolution of
\* the project id the cache is written and the method's endpoint requested;
\* after the method's request the execute function reshapes the response.
ExecuteResumes(t) ==
    /\ tool[t].stage \in {"resolve", "dispatch"}
    /\ pc[t] \in Settled
    /\ LET name == tool[t].name
           method == MethodOf(name, tool[t].input)
           args == ArgsOf(name, tool[t].input)
           got == ProjectIdOf(result[t].value)
           out == Reshape(name, result[t].value)
       IN  IF result[t].state = "rejected"
           THEN /\ Settle(t, tool[t], Threw(result[t].error))
                /\ NoFrame(t)
                /\ UNCHANGED <<resolvedProjectId, op, params, calls, sent>>
           ELSE IF tool[t].stage = "resolve"
           THEN IF got.throws
                THEN /\ Settle(t, tool[t], Threw(Err("TypeError", got.message, 0)))
                     /\ NoFrame(t)
                     /\ UNCHANGED <<resolvedProjectId, op, params, calls, sent>>
                ELSE /\ resolvedProjectId' = CacheWrite(resolvedProjectId, got.id)
                     /\ op' = [op EXCEPT ![t].endpoint = Path(method, resolvedProjectId', args)]
                     /\ params' = [params EXCEPT ![t] = Query(method, args)]
                     /\ EnterRequest(t, Path(method, resolvedProjectId', args))
                     /\ tool' = [tool EXCEPT ![t].stage = "dispatch", ![t].requests = @ + 1]
                     /\ UNCHANGED <<ret, reply>>
           ELSE /\ Settle(t, tool[t],
                          IF out.throws THEN Threw(Err("TypeError", out.message, 0))
                          ELSE Returned(out.output))
                /\ NoFrame(t)
                /\ UNCHANGED <<resolvedProjectId, op, params, calls, sent>>
    /\ UNCHANGED <<apiKey, baseUrl, tokenType, callVars>>

-----------------------------------------------------------------------------
(* Specifications *)

\* The client as the constructor leaves it, with the given tasks idle.
InitClient(keys, urls, tasks) ==
    /\ apiKey \in keys
    /\ baseUrl \in urls
    /\ tokenType = detectTokenType(apiKey)
    /\ resolvedProjectId = Null
    /\ op = [t \in tasks |-> [name |-> "idle", endpoint |-> "", projectId |-> Undefined]]
    /\ ret = [t \in tasks |-> NoRet]
    /\ pc = [t \in tasks |-> "idle"]
    /\ attempt = [t \in tasks |-> 0]
    /\ lastError = [t \in tasks |-> NoError]
    /\ response = [t \in tasks |-> NoResponse]
    /\ errorData = [t \in tasks |-> EmptyObject]
    /\ timer = [t \in tasks |-> FALSE]
    /\ result = [t \in tasks |-> Pending]
    /\ elapsed = [t \in tasks |-> FALSE]
    /\ waits = [t \in tasks |-> <<>>]
    /\ tries = [t \in tasks |-> 0]
    /\ plain = [t \in tasks |-> TRUE]
    /\ lastOutcome = [t \in tasks |-> "none"]
    /\ calls = [e \in Endpoints |-> 0]
    /\ sent = {}
    /\ started = 0
    /\ caller = 0
    /\ startedEmpty = 0
    /\ implicit = 0
    /\ overlapped = FALSE
    /\ failed = 0
    /\ tool = [t \in tasks |-> NoTool]
    /\ params = [t \in tasks |-> NoParams]
    /\ reply = [t \in tasks |-> NoReply]

\* One call of request(), against every behaviour of the upstream.
RequestTasks == {1}

Init == InitClient(ApiKeys, BaseUrls, RequestTasks)

Next ==
    \E t \in RequestTasks :
        \/ \E endpoint \in Endpoints : Request(t, endpoint)
        \/ FetchResolves(t, StatusCodes, RetryAfterHeaders)
        \/ FetchRejects(t)
        \/ ErrorBodyArrives(t, ErrorBodies)
        \/ OkBodyArrives(t, OkBodies)
        \/ DeadlinePasses(t)
        \/ Wake(t)

Spec == Init /\ [][Next]_vars

\* Concurrent and successive calls of resolveProjectId() on one client.  The
\* upstream answers every attempt, with a 2xx or a non-retryable status: how
\* request() retries is explored by Spec, and here each call of
\* request('/project') resolves with some body or rejects.
ResolverStatuses == {200, 404}
ResolverHeaders == {NoHeader}
ResolverErrorBodies == {EmptyObject}

ResolverTasks == 1..NumTasks

InitResolver == InitClient(ApiKeys, {"https://app.gaffer.sh"}, ResolverTasks)

NextResolver ==
    \E t \in ResolverTasks :
        \/ \E projectId \in ExplicitIds : ResolveProjectId(t, projectId)
        \/ ResolveProjectIdResumes(t)
        \/ FetchResolves(t, ResolverStatuses, ResolverHeaders)
        \/ ErrorBodyArrives(t, ResolverErrorBodies)
        \/ OkBodyArrives(t, OkBodies)

SpecResolver == InitResolver /\ [][NextResolver]_vars

\* Concurrent calls of request() on one client, one per task, each with its
\* own upstream behaviour: a 2xx, a retryable or a non-retryable status, a
\* connection error or silence, independently on every attempt.
ConcurrentTasks == {1, 2}
ConcurrentStatuses == {200, 404, 503}
ConcurrentErrorBodies == {Body("object", Undefined), Body("object", "not found")}
ConcurrentOkBodies == {Json("object", TRUE, UpstreamProjectId)}

InitConcurrent ==
    InitClient({<<"g", "f", "r", "_", "k">>}, {"https://app.gaffer.sh"}, ConcurrentTasks)

NextConcurrent ==
    \E t \in ConcurrentTasks :
        \/ Request(t, "/project")
        \/ FetchResolves(t, ConcurrentStatuses, {NoHeader})
        \/ FetchRejects(t)
        \/ ErrorBodyArrives(t, ConcurrentErrorBodies)
        \/ OkBodyArrives(t, ConcurrentOkBodies)
        \/ DeadlinePasses(t)
        \/ Wake(t)

SpecConcurrent == InitConcurrent /\ [][NextConcurrent]_vars

\* One call of request() with the scheduling the runtime guarantees: a timer
\* that is due fires, so a pending deadline passes and a backoff sleep ends.
\* Nothing is assumed of the upstream: it may answer an attempt, refuse it,
\* or stay silent, before or after the status line.
LiveStatuses == {200, 404, 429, 503}
LiveHeaders == {NoHeader, Header("seconds", MaxRetryAfter)}

NextLive ==
    \E t \in RequestTasks :
        \/ \E endpoint \in Endpoints : Request(t, endpoint)
        \/ FetchResolves(t, LiveStatuses, LiveHeaders)
        \/ FetchRejects(t)
        \/ ErrorBodyArrives(t, ErrorBodies)
        \/ OkBodyArrives(t, OkBodies)
        \/ DeadlinePasses(t)
        \/ Wake(t)

TimersFire ==
    \A t \in RequestTasks : WF_vars(DeadlinePasses(t)) /\ WF_vars(Wake(t))

SpecLive == Init /\ [][NextLive]_vars /\ TimersFire

\* A client constructed with any credential, and successive calls of
\* resolveProjectId() on it.
KeyTasks == {1}

InitKeys == InitClient(Tokens, {"https://app.gaffer.sh"}, KeyTasks)

NextKeys ==
    \E t \in KeyTasks :
        \/ \E projectId \in ExplicitIds : ResolveProjectId(t, projectId)
        \/ ResolveProjectIdResumes(t)
        \/ FetchResolves(t, ResolverStatuses, ResolverHeaders)
        \/ ErrorBodyArrives(t, ResolverErrorBodies)
        \/ OkBodyArrives(t, OkBodies)

SpecKeys == InitKeys /\ [][NextKeys]_vars

\* Successive tool calls on one client.
\* The upstream answers as in the resolver specification; the 2xx bodies
\* are those of the endpoint requested.
ToolTasks == {1}

InitTools == InitClient(ApiKeys, {"https://app.gaffer.sh"}, ToolTasks)

NextTools ==
    \E t \in ToolTasks :
        \/ \E name \in Tools : \E input \in Inputs(name) : Execute(t, name, input)
        \/ ExecuteResumes(t)
        \/ FetchResolves(t, ResolverStatuses, ResolverHeaders)
        \/ ErrorBodyArrives(t, ResolverErrorBodies)
        \/ OkBodyArrives(t, BodiesOf(op[t].endpoint))

SpecTools == InitTools /\ [][NextTools]_vars

-----------------------------------------------------------------------------
(* Properties of request(), checked under Spec *)

\* The message the caller sees for a non-2xx response: the envelope's
\* error.message when the body carries one, else the generic status text.
EnvelopeMessage(data, status) ==
    IF data.kind = "object" /\ data.message \notin {Undefined, ""}
    THEN data.message
    ELSE "API request failed: " \o ToString(status)

\* The backoff 1000 * 2^n as a plain integer.
Backoff(n) == 1000 * 2^n

\* The waits a call has made are 1000, 2000, 4000, ... so far.
ExponentialWaits(w) == \A i \in 1..Len(w) : w[i] = Backoff(i - 1)

\* Every attempt of the call of task t so far received a retryable status
\* without a Retry-After header.
AlwaysRetryable(t) == op[t].name = "request" /\ tries[t] > 0 /\ plain[t]

C2_NonRetryableFailsAtOnce ==
    \A t \in Tasks :
        (/\ lastOutcome[t] = "status"
         /\ response[t].status \notin RETRYABLE_STATUS_CODES
         /\ ~Ok(response[t].status)
         /\ pc[t] # "errBody") =>
            /\ pc[t] = "rejected"
            /\ result[t].error.message = EnvelopeMessage(errorData[t], response[t].status)
            /\ tries[t] = attempt[t] + 1
            /\ Len(waits[t]) = attempt[t]

\* C3: no attempt is still in flight once its 30000 ms deadline has passed.
C3_NoAttemptPastDeadline ==
    \A t \in Tasks : elapsed[t] => pc[t] \notin InFlight

\* C4: after a 429 with Retry-After: s on attempt n < 3 the call waits
\* max(1000 * 2^n, 1000 * s) ms.
C4_RetryAfterHonoured ==
    \A t \in Tasks :
        (/\ pc[t] = "sleep"
         /\ lastOutcome[t] = "status"
         /\ response[t].status = 429
         /\ response[t].retryAfter.kind = "seconds"
         /\ response[t].retryAfter.n >= 0) =>
            LET n == attempt[t]
                s == response[t].retryAfter.n
            IN  /\ n < 3
                /\ waits[t][Len(waits[t])]
                       = IF Backoff(n) >= 1000 * s THEN Backoff(n) ELSE 1000 * s

\* The call of task t has used up its 4 attempts on retryable failures.
Exhausted(t) ==
    /\ pc[t] = "rejected"
    /\ tries[t] = 4
    /\ \/ lastOutcome[t] \in {"timeout", "network"}
       \/ lastOutcome[t] = "status" /\ response[t].status \in RETRYABLE_STATUS_CODES

\* C5: a call that has exhausted its 4 attempts fails with the error of the
\* 4th attempt: the last response's envelope message, else the generic
\* status text, else the timeout message (or the connection error).
C5_LastErrorSurfaces ==
    \A t \in Tasks :
        Exhausted(t) =>
            /\ result[t].error.at = 3
            /\ lastOutcome[t] = "status" =>
                   result[t].error.message = EnvelopeMessage(errorData[t], response[t].status)
            /\ lastOutcome[t] = "timeout" =>
                   result[t].error.message = "Request timed out after 30000ms"
            /\ lastOutcome[t] = "network" =>
                   result[t].error = Err("TypeError", "fetch failed", 3)

\* C6: a timeout or a connection failure of fetch() on attempt n < 3 is
\* followed by a wait of 1000 * 2^n ms and then by attempt n + 1; the call
\* fails with such an error only when it was the 4th attempt's.
C6_TransientRetried ==
    \A t \in Tasks :
        /\ lastOutcome[t] \in {"timeout", "network"} =>
            /\ pc[t] \in {"sleep", "rejected"} \cup InFlight
            /\ pc[t] = "sleep" =>
                /\ attempt[t] < 3
                /\ Len(waits[t]) = attempt[t] + 1
                /\ waits[t][Len(waits[t])] = Backoff(attempt[t])
            /\ pc[t] \in InFlight =>
                /\ attempt[t] >= 1
                /\ tries[t] = attempt[t] + 1
                /\ Len(waits[t]) = attempt[t]
            /\ pc[t] = "rejected" => attempt[t] = 3 /\ tries[t] = 4
        /\ (/\ pc[t] = "rejected"
            /\ \/ result[t].error.message = "Request timed out after 30000ms"
               \/ result[t].error.message = "fetch failed") =>
            /\ tries[t] = 4
            /\ result[t].error.at = 3

\* A call is sleeping 4000 ms after its 3rd attempt timed out.
C6_Witness ==
    \E t \in Tasks :
        /\ pc[t] = "sleep"
        /\ lastOutcome[t] = "timeout"
        /\ attempt[t] = 2
        /\ waits[t][3] = 4000

\* C23: a call of request() issues at most 4 attempts and sleeps at most 3
\* times.  The 4th attempt is the last: whatever ends it, the call settles
\* without another wait and without another attempt.  A 2xx response at
\* any attempt is the last too: the call leaves the loop, and settles when
\* the body has been read.  A settled call stays as it settled.
C23_AtMostFourAttempts ==
    /\ [](\A t \in Tasks : tries[t] <= 4 /\ Len(waits[t]) <= 3 /\ Len(waits[t]) <= tries[t])
    /\ [][\A t \in Tasks :
            /\ (tries[t] = 4 /\ pc[t] \in InFlight) =>
                    /\ pc'[t] \in InFlight \cup Settled
                    /\ tries'[t] = 4
                    /\ waits'[t] = waits[t]
            /\ pc[t] = "okBody" =>
                    /\ pc'[t] \in {"okBody"} \cup Settled
                    /\ tries'[t] = tries[t]
                    /\ waits'[t] = waits[t]
            /\ pc[t] \in Settled =>
                    /\ pc'[t] = pc[t]
                    /\ result'[t] = result[t]
                    /\ tries'[t] = tries[t]
                    /\ waits'[t] = waits[t]]_vars

\* The 4th attempt of a call timed out and the call failed, after 3 waits.
C23_Witness ==
    \E t \in Tasks :
        /\ tries[t] = 4
        /\ lastOutcome[t] = "timeout"
        /\ pc[t] = "rejected"
        /\ waits[t] = <<1000, 2000, 4000>>
        /\ result[t].error.message = TimeoutMessage

\* C24: with a base URL that cannot be parsed, a call of request() fails
\* only after 4 attempts, with waits of 1000, 2000 and 4000 ms between them.
C24_MalformedUrlRetried ==
    \A t \in Tasks :
        (~ValidUrl(baseUrl) /\ pc[t] = "rejected") =>
            /\ tries[t] = 4
            /\ waits[t] = <<1000, 2000, 4000>>

\* C25: once the body of a 2xx response has been read the call has settled
\* at that attempt - no wait and no attempt follows it - and when the body
\* was not JSON it has rejected with the parse error.
C25_BadBodyFailsAtOnce ==
    /\ [](\A t \in Tasks :
            /\ lastOutcome[t] = "body" =>
                /\ pc[t] \in Settled
                /\ Ok(response[t].status)
                /\ tries[t] = attempt[t] + 1
                /\ Len(waits[t]) = attempt[t]
            /\ (pc[t] = "rejected" /\ lastOutcome[t] = "body") =>
                    result[t].error = Err("SyntaxError", "Unexpected token", attempt[t]))
    /\ [][\A t \in Tasks :
            (pc[t] = "okBody" /\ pc'[t] # "okBody") =>
                /\ pc'[t] \in Settled
                /\ waits'[t] = waits[t]
                /\ tries'[t] = tries[t]]_vars

\* The 2nd attempt of a call got a 2xx status and a body that is not JSON:
\* the call failed with the parse error, with no wait but the first.
C25_Witness ==
    \E t \in Tasks :
        /\ pc[t] = "rejected"
        /\ lastOutcome[t] = "body"
        /\ result[t].error.name = "SyntaxError"
        /\ attempt[t] = 1
        /\ tries[t] = 2
        /\ Len(waits[t]) = 1

\* C28: the wait before retry n (counted from 0) is never shorter than
\* 1000 * 2^n ms, whatever retryable response or failure led to it.
C28_WaitNeverBelowBackoff ==
    \A t \in Tasks :
        \A i \in 1..Len(waits[t]) : waits[t][i] >= Backoff(i - 1)

\* C29: every call of request() eventually settles, whatever the upstream
\* does, as long as timers fire.
C29_EveryCallSettles ==
    \A t \in RequestTasks : (op[t].name = "request") ~> (pc[t] \in Settled)

-----------------------------------------------------------------------------
(* Properties of resolveProjectId(), checked under SpecResolver *)

\* Task t has called resolveProjectId() without an id.
Implicit(t) == op[t].name = "resolveProjectId" /\ op[t].projectId \in {Undefined, ""}

C8_OneResolutionPerEmptyStart ==
    /\ calls["/project"] = startedEmpty
    /\ calls["/project"] <= implicit
    /\ \A t \in Tasks :
        (Implicit(t) /\ ret[t].state = "pending") => tokenType = "project"

\* Two calls raced and were both resolved upstream; a third, begun after
\* the cache was filled, was served from it.
C8_Witness ==
    /\ overlapped
    /\ calls["/project"] = 2
    /\ implicit = 3
    /\ resolvedProjectId = "p1"
    /\ \E t \in Tasks : caller = t /\ Implicit(t) /\ ret[t] = Returned("p1")
    /\ \A t \in Tasks : ~Busy(t)

\* C9: the cache is empty at construction and, once it holds an id, keeps
\* that id for ever.
C9_CacheNeverInvalidated ==
    /\ resolvedProjectId = Null
    /\ [][resolvedProjectId \notin {Null, Undefined, ""}
            => resolvedProjectId' = resolvedProjectId]_vars

\* C10: resolveProjectId(id) with a non-empty id returns id, calls neither
\* request() nor fetch(), and leaves the cache as it was.
C10_ExplicitIdVerbatim ==
    [][\A t \in Tasks :
        (/\ started' = started + 1
         /\ caller' = t
         /\ op'[t].name = "resolveProjectId"
         /\ op'[t].projectId \notin {Undefined, ""}) =>
            /\ ret'[t] = Returned(op'[t].projectId)
            /\ resolvedProjectId' = resolvedProjectId
            /\ calls' = calls
            /\ sent' = sent
            /\ pc'[t] = "idle"
            /\ tries'[t] = 0]_vars

\* A project token whose cache holds p1 was asked with the id p2 and
\* returned p2.
C10_Witness ==
    \E t \in Tasks :
        /\ caller = t
        /\ tokenType = "project"
        /\ resolvedProjectId = "p1"
        /\ op[t].name = "resolveProjectId"
        /\ op[t].projectId = "p2"
        /\ ret[t] = Returned("p2")

\* The step is one of request() in task t: an attempt's response, body or
\* failure arrives, a timer fires, or a backoff sleep ends.
RequestStep(t) ==
    /\ pc[t] \in InFlight \cup {"sleep"}
    /\ <<pc'[t], attempt'[t], timer'[t], result'[t]>> #
           <<pc[t], attempt[t], timer[t], result[t]>>

\* The step is the success path of resolveProjectId() in task t: the
\* awaited request('/project') resolved with a response that has a project.
ResolutionSucceeds(t) ==
    /\ op[t].name = "resolveProjectId"
    /\ ret[t].state = "pending"
    /\ pc[t] = "resolved"
    /\ ~ProjectIdOf(result[t].value).throws
    /\ ret'[t].state = "returned"

\* C26: no step changes the credential, the base URL or the token type; no
\* step of request() changes the cache, however calls interleave; the cache
\* changes only in the success path of resolveProjectId(), which writes the
\* id of the response and returns it.
C26_RequestWritesNoState ==
    [][/\ apiKey' = apiKey
       /\ baseUrl' = baseUrl
       /\ tokenType' = tokenType
       /\ \A t \in Tasks :
            /\ (RequestStep(t) /\ ~ResolutionSucceeds(t)) =>
                    resolvedProjectId' = resolvedProjectId
            /\ ResolutionSucceeds(t) =>
                    /\ resolvedProjectId' = result[t].value.id
                    /\ ret'[t].value = resolvedProjectId'
       /\ resolvedProjectId' # resolvedProjectId =>
            \E t \in Tasks : ResolutionSucceeds(t)]_vars

\* While one call's request('/project') was still in flight, another call's
\* resolution filled the cache.
C26_Witness ==
    \E t, u \in Tasks :
        /\ t # u
        /\ pc[t] \in InFlight
        /\ ret[t].state = "pending"
        /\ ret[u] = Returned("p1")
        /\ resolvedProjectId = "p1"
        /\ calls["/project"] = 2

\* The resolution call of task t has failed: request('/project') rejected,
\* or resolved with a response that carries no project.id.
ResolutionFailed(t) ==
    /\ op[t].name = "resolveProjectId"
    /\ ret[t].state = "pending"
    /\ pc[t] \in Settled
    /\ \/ result[t].state = "rejected"
       \/ ProjectIdOf(result[t].value).throws
       \/ ~Truthy(ProjectIdOf(result[t].value).id)

\* C30: when the resolution call of resolveProjectId() has failed, the call
\* throws and leaves the cache as it was; and a call without an id that
\* begins while the cache holds no id issues a resolution call of its own.
C30_FailedResolutionPropagates ==
    [][\A t \in Tasks :
        /\ (ResolutionFailed(t) /\ ret'[t] # ret[t]) =>
                /\ ret'[t].state = "threw"
                /\ resolvedProjectId' = resolvedProjectId
        /\ (/\ started' = started + 1
            /\ caller' = t
            /\ tokenType = "project"
            /\ op'[t].name = "resolveProjectId"
            /\ op'[t].projectId \in {Undefined, ""}
            /\ ~Truthy(resolvedProjectId)) =>
                /\ calls'["/project"] = calls["/project"] + 1
                /\ ret'[t] = Awaiting]_vars

-----------------------------------------------------------------------------
(* Properties of the tools, checked under SpecTools *)

\* The step is the call of a tool by task t.
Calls(t) == started' = started + 1 /\ caller' = t

\* The client method and options of the tool call task t (has) made.
Method(t) == MethodOf(tool[t].name, tool[t].input)
Args(t) == ArgsOf(tool[t].name, tool[t].input)

\* The call of task t made no call of request() and settled by throwing.
FailedOffline(t) ==
    /\ tool[t].stage = "done"
    /\ tool[t].requests = 0
    /\ ret[t].state = "threw"
    /\ pc[t] = "idle"
    /\ tries[t] = 0

\* C11: with a user API Key (gaf_), every project-scoped operation called
\* without a projectId fails and calls request() not once; where the
\* operation's own validation passes, the error is resolveProjectId()'s
\* 'projectId is required when using a user API Key'.
C11_UserTokenNeedsProjectId ==
    [][\A t \in Tasks :
        (/\ Calls(t)
         /\ isUserToken
         /\ Method(t)' \in ProjectMethods
         /\ ~Truthy(tool'[t].input.projectId)) =>
            /\ FailedOffline(t)'
            /\ calls' = calls
            /\ sent' = sent
            /\ (ToolCheck(tool'[t].name, tool'[t].input) = ""
                    /\ MethodCheck(Method(t)', Args(t)') = "") =>
                        ret'[t] = Threw(Err("Error", ProjectIdRequired, 0))]_vars

\* get_project_health was called with a user API Key and no projectId and
\* failed with the resolver's error, no request made.
C11_Witness ==
    \E t \in Tasks :
        /\ isUserToken
        /\ tool[t].name = "get_project_health"
        /\ tool[t].input.projectId = Undefined
        /\ FailedOffline(t)
        /\ ret[t] = Threw(Err("Error", ProjectIdRequired, 0))
        /\ sent = {}

\* C12: a client built with a user API Key never requests /project, and a
\* client built with a project token never requests /user/projects,
\* whatever tools are called on it one after another.
C12_EndpointsByTokenType ==
    /\ isUserToken => "/project" \notin sent /\ calls["/project"] = 0
    /\ ~isUserToken => "/user/projects" \notin sent /\ calls["/user/projects"] = 0

\* A project token resolved its project id with a request of /project, and
\* a later call of list_projects on the same client failed with no request.
C12_Witness ==
    \E t \in Tasks :
        /\ ~isUserToken
        /\ "/project" \in sent
        /\ started = 2
        /\ tool[t].name = "list_projects"
        /\ FailedOffline(t)
        /\ ret[t] = Threw(Err("Error", GateMessage("listProjects"), 0))

\* The client methods the specification restricts to user API Keys.
Restricted ==
    {"listProjects", "getReport", "getSlowestTests", "getTestRunDetails",
     "compareTestMetrics", "getCoverageSummary", "getCoverageFiles",
     "getCoverageRiskAreas", "getFailureClusters", "getReportBrowserUrl",
     "listUploadSessions", "getUploadSessionDetail"}

\* C13: with a project token, a call of an operation restricted to user API
\* Keys fails at once, with an error and without any request.
C13_RestrictedFailOffline ==
    \A t \in Tasks :
        (/\ ~isUserToken
         /\ tool[t].stage # "idle"
         /\ Method(t) \in Restricted) => FailedOffline(t)

\* Exactly one of the two sides of a pair is supplied.
OneSided(before, after) == before.defined # after.defined

\* C14: compare_test_metrics rejects, before any request, every input with
\* one side of a pair but not the other, and every input with neither pair.
C14_IncompletePairRejected ==
    \A t \in Tasks :
        LET input == tool[t].input
        IN  (/\ tool[t].name = "compare_test_metrics"
             /\ tool[t].stage # "idle"
             /\ \/ OneSided(input.beforeCommit, input.afterCommit)
                \/ OneSided(input.beforeRunId, input.afterRunId)
                \/ /\ ~input.beforeCommit.defined /\ ~input.afterCommit.defined
                   /\ ~input.beforeRunId.defined /\ ~input.afterRunId.defined)
                => FailedOffline(t)

\* v is a string with something other than white space in it.
NonBlank(v) == Given(Trim(v))

\* The input of task t's call supplies both pairs, and a test name.
BothPairs(t) ==
    /\ NonBlank(tool[t].input.beforeCommit) /\ NonBlank(tool[t].input.afterCommit)
    /\ NonBlank(tool[t].input.beforeRunId) /\ NonBlank(tool[t].input.afterRunId)
    /\ Given(tool[t].input.testName)

\* The project id of task t's call can be had: it is given, or the token
\* is a project token.
Resolvable(t) == Truthy(tool[t].input.projectId) \/ ~isUserToken

\* C15: compare_test_metrics accepts an input with both pairs complete: the
\* call goes to the network, and the compare request carries all four
\* identifiers as given.
C15_BothPairsForwarded ==
    \A t \in Tasks :
        (/\ tool[t].name = "compare_test_metrics"
         /\ tool[t].stage # "idle"
         /\ BothPairs(t)
         /\ Resolvable(t)) =>
            /\ tool[t].requests >= 1
            /\ op[t].endpoint \in sent
            /\ op[t].endpoint # "/project" =>
                /\ op[t].endpoint = "/user/projects/"
                        \o (IF Truthy(tool[t].input.projectId)
                            THEN tool[t].input.projectId ELSE resolvedProjectId)
                        \o "/compare-test"
                /\ params[t].testName = tool[t].input.testName
                /\ params[t].beforeCommit = tool[t].input.beforeCommit
                /\ params[t].afterCommit = tool[t].input.afterCommit
                /\ params[t].beforeRunId = tool[t].input.beforeRunId
                /\ params[t].afterRunId = tool[t].input.afterRunId

\* A comparison with both pairs was requested with all four identifiers and
\* returned the upstream's answer.
C15_Witness ==
    \E t \in Tasks :
        /\ tool[t].name = "compare_test_metrics"
        /\ BothPairs(t)
        /\ tool[t].stage = "done"
        /\ ret[t].state = "returned"
        /\ "/user/projects/p2/compare-test" \in sent
        /\ params[t].beforeCommit = Text(<<"a">>)
        /\ params[t].afterCommit = Text(<<"a">>)
        /\ params[t].beforeRunId = Text(<<"r">>)
        /\ params[t].afterRunId = Text(<<"r">>)

\* C16: a test history lookup whose testName and filePath are both absent
\* or blank fails with no request, and with the error an input with
\* neither field fails with.
C16_BlankHistoryFailsAlike ==
    \A t \in Tasks :
        (/\ tool[t].name = "get_test_history"
         /\ tool[t].stage # "idle"
         /\ ~NonBlank(tool[t].input.testName)
         /\ ~NonBlank(tool[t].input.filePath)) =>
            /\ FailedOffline(t)
            /\ ret[t].error.message = ExecuteEntry("get_test_history", NoInput).message

\* The input of the tool name fails the validation of the execute function
\* or of the client method it calls, or the token is of the wrong type for
\* the method: the message of the failure, or "" when there is none.
Invalid(name, input) ==
    LET method == MethodOf(name, input)
    IN  IF ToolCheck(name, input) # "" THEN ToolCheck(name, input)
        ELSE IF method \in GatedMethods /\ ~isUserToken THEN GateMessage(method)
        ELSE MethodCheck(method, ArgsOf(name, input))

ProjectOf(t) ==
    IF Truthy(tool[t].input.projectId) THEN tool[t].input.projectId
    ELSE resolvedProjectId

\* C18: a get_upload_status call is in one mode only, by its sessionId.
\* With a sessionId its one request besides the resolution of the project
\* id is for the detail of that session, with no commitSha or branch; with
\* none it is for the list of sessions, with the commitSha and branch
\* given.  A call makes a second request only after /project.
C18_OneUploadMode ==
    /\ [](\A t \in Tasks :
            (/\ tool[t].name = "get_upload_status"
             /\ op[t].endpoint \notin {"", "/project"}) =>
                IF Truthy(tool[t].input.sessionId)
                THEN /\ op[t].endpoint = "/user/projects/" \o ProjectOf(t)
                            \o "/upload-sessions/" \o tool[t].input.sessionId
                     /\ params[t] = NoParams
                ELSE /\ op[t].endpoint = "/user/projects/" \o ProjectOf(t)
                            \o "/upload-sessions"
                     /\ params[t].commitSha = tool[t].input.commitSha
                     /\ params[t].branch = tool[t].input.branch)
    /\ [][\A t \in Tasks :
            (/\ tool'[t].name = "get_upload_status"
             /\ pc'[t] = "fetch"
             /\ pc[t] # "fetch") =>
                \/ Calls(t)
                \/ /\ op[t].endpoint = "/project"
                   /\ tool[t].requests = 1
                   /\ tool'[t].requests = 2]_vars

\* A call with the session s1, a commit and a branch returned after one
\* request, for the detail of s1, that carried neither commit nor branch.
C18_Witness ==
    \E t \in Tasks :
        /\ tool[t].name = "get_upload_status"
        /\ tool[t].input.sessionId = "s1"
        /\ tool[t].input.commitSha = "c1"
        /\ tool[t].input.branch = "c1"
        /\ tool[t].input.projectId = "p2"
        /\ tool[t].stage = "done"
        /\ tool[t].requests = 1
        /\ ret[t].state = "returned"
        /\ sent = {"/user/projects/p2/upload-sessions/s1"}
        /\ params[t].commitSha = Undefined
        /\ params[t].branch = Undefined

\* C19: an optional, nullable field of the upstream's response is in the
\* operation's output in the state it had in the response: absent stays
\* absent, null stays null, a value stays that value.
C19_NullablesRoundTrip ==
    [][\A t \in Tasks :
        (/\ tool[t].stage = "dispatch"
         /\ pc[t] = "resolved"
         /\ result[t].value.kind = "object"
         /\ tool'[t].stage = "done") =>
            /\ ret'[t].state = "returned"
            /\ ret'[t].value.commitSha = result[t].value.commitSha
            /\ ret'[t].value.message = result[t].value.message]_vars

\* C20: the handler of a registered tool resolves when execute settles and
\* not before.  If execute threw, the response has isError true, no
\* structuredContent, and the text "Error: " followed by the message of the
\* error, which is the message request() rejected with when the error came
\* from request().  If execute returned, the response has the output as
\* structuredContent and no isError.
C20_HandlerNeverRejects ==
    /\ [](\A t \in Tasks :
            tool[t].handled =>
                /\ tool[t].stage # "done" => reply[t] = NoReply
                /\ tool[t].stage = "done" =>
                    /\ reply[t].state = "resolved"
                    /\ ret[t].state \in {"threw", "returned"}
                    /\ ret[t].state = "threw" =>
                        /\ reply[t].isError = "true"
                        /\ reply[t].text = "Error: " \o ret[t].error.message
                        /\ reply[t].structuredContent = NoOutput
                    /\ ret[t].state = "returned" =>
                        /\ reply[t].isError = Undefined
                        /\ reply[t].structuredContent = ret[t].value
                        /\ reply[t].text = Stringify(ret[t].value))
    /\ [][\A t \in Tasks :
            (/\ tool[t].handled
             /\ tool[t].stage \in {"resolve", "dispatch"}
             /\ pc[t] = "rejected"
             /\ tool'[t].stage = "done") =>
                /\ ret'[t] = Threw(result[t].error)
                /\ reply'[t].text = "Error: " \o result[t].error.message]_vars

\* The upstream answered a registered tool's request with a body that is
\* not JSON; the handler resolved with the parse error's message.
C20_Witness ==
    \E t \in Tasks :
        /\ tool[t].handled
        /\ tool[t].stage = "done"
        /\ ret[t].state = "threw"
        /\ ret[t].error.name = "SyntaxError"
        /\ reply[t].state = "resolved"
        /\ reply[t].isError = "true"
        /\ reply[t].text = "Error: Unexpected token"

\* C22: when the caller omits limit, the request of get_test_history, of
\* list_test_runs and of get_flaky_tests carries limit = 20.
C22_LimitDefaultsTo20 ==
    \A t \in Tasks :
        (/\ tool[t].name \in {"get_test_history", "list_test_runs", "get_flaky_tests"}
         /\ ~tool[t].input.limit.defined
         /\ op[t].endpoint \notin {"", "/project"}) =>
            params[t].limit = Number(20)


-----------------------------------------------------------------------------
(* Properties of the credential, checked under SpecKeys *)

\* The credential begins with the four characters g, a, f, _.
BeginsWithGaf ==
    /\ Len(apiKey) >= 4
    /\ apiKey[1] = "g" /\ apiKey[2] = "a" /\ apiKey[3] = "f" /\ apiKey[4] = "_"

\* C21: the client's token type is "user" if and only if its credential
\* starts with the literal gaf_, in that case exactly, and "project"
\* otherwise; neither the credential nor the type changes after construction.
C21_TokenTypeByPrefix ==
    /\ [](tokenType = IF BeginsWithGaf THEN "user" ELSE "project")
    /\ [](isUserToken <=> BeginsWithGaf)
    /\ [][tokenType' = tokenType /\ apiKey' = apiKey]_vars

\* A client constructed with GAF_k is a project-token client: it has
\* resolved its project id upstream.
C21_Witness ==
    /\ apiKey = <<"G", "A", "F", "_", "k">>
    /\ tokenType = "project"
    /\ calls["/project"] = 1
    /\ resolvedProjectId = "p1"

-----------------------------------------------------------------------------
(* Properties of concurrent request() calls, checked under SpecConcurrent *)

\* What one call of request() keeps between its attempts: its position, its
\* attempt counter, its last error, its abort timer and the outcome so far.
RetryState(t) ==
    <<pc[t], attempt[t], lastError[t], timer[t], elapsed[t], result[t],
      response[t], errorData[t], tries[t], waits[t]>>

\* C27: each concurrent call of request() has its own attempt counter, last
\* error and abort timer.  A step of one call leaves the retry state of
\* every other call as it was; each call begins attempt number tries - 1
\* after as many waits, never more than 4; a call that fails on a status
\* surfaces the error of its own last response, and one that fails on a
\* timeout or connection error surfaces the error of its own last attempt.
C27_NoSharedRetryState ==
    /\ [](\A t \in Tasks :
            /\ pc[t] \in InFlight => (attempt[t] = tries[t] - 1 /\ Len(waits[t]) = attempt[t])
            /\ tries[t] <= MAX_RETRIES + 1
            /\ (pc[t] = "rejected" /\ lastOutcome[t] = "status") =>
                    /\ result[t].error.message = EnvelopeMessage(errorData[t], response[t].status)
                    /\ result[t].error.at = tries[t] - 1
                    /\ response[t].status \in RETRYABLE_STATUS_CODES => tries[t] = MAX_RETRIES + 1
            /\ (pc[t] = "rejected" /\ lastOutcome[t] \in {"timeout", "network"}) =>
                    /\ tries[t] = MAX_RETRIES + 1
                    /\ result[t].error.at = MAX_RETRIES
                    /\ result[t].error.message =
                           IF lastOutcome[t] = "timeout" THEN TimeoutMessage ELSE "fetch failed")
    /\ [][\A t, u \in Tasks :
            (t # u /\ RetryState(t)' # RetryState(t)) => RetryState(u)' = RetryState(u)]_vars

\* One call has failed on its first attempt with a 404 while the other, after
\* three failed attempts of its own, is in its fourth.
C27_Witness ==
    \E t, u \in Tasks :
        /\ t # u
        /\ pc[t] = "rejected" /\ tries[t] = 1 /\ response[t].status = 404
        /\ pc[u] = "fetch" /\ attempt[u] = 3 /\ lastError[u].message = TimeoutMessage
        /\ lastError[t] # lastError[u]

=============================================================================
